---- MODULE Spec2Model ----
(***************************************************************************)
(* Model of the pymodoro timer core (pymodoro/timer/core.py) together with *)
(* the break overlay (pymodoro/gui/overlay.py), the one collaborator that  *)
(* writes the timer's fields directly.                                     *)
(*                                                                         *)
(* Every method of PomodoroTimer is an operator from a timer record to a   *)
(* timer record, composed in the order of the method's statements; the Qt  *)
(* signals are modelled as the sequence of events a call emits, and the    *)
(* overlay's slots run synchronously inside each emission, as directly     *)
(* connected Qt slots do.  One action of the model is one callback of the  *)
(* Qt event loop: a command, a timeout of qt_timer, or an overlay button.  *)
(*                                                                         *)
(* The application (pymodoro/app.py) connects the InputMonitor             *)
(* (pymodoro/input/monitor.py) to state_changed; its pynput listeners run  *)
(* their callbacks on threads of their own, one shared-variable access per *)
(* step, and hand activity_detected to the main thread through a queued    *)
(* connection.                                                             *)
(***************************************************************************)
EXTENDS Integers, Sequences, FiniteSets, TLC

VARIABLES
    config,             \* the BaseConfig the timer reads (durations in seconds)
    current_state,      \* PomodoroTimer.current_state
    previous_state,     \* PomodoroTimer.previous_state
    remaining_seconds,  \* PomodoroTimer.remaining_seconds
    current_session,    \* PomodoroTimer.current_session
    qt_timer_active,    \* PomodoroTimer.qt_timer.isActive()
    overlay_visible,    \* BreakOverlay.isVisible()
    emitted,            \* the signals emitted by the last callback, in order
    completions,        \* history: session_completed(WORK) emissions since the last reset()
    last_state_changed, \* history: the state the latest state_changed carried (NoState: none yet)
    op,                 \* history: the callback that ran last
    session_shown,      \* the session numbers the last callback wrote to MainWindow.session_label
    remaining_seen,     \* the remaining_seconds the slots read at each state_changed of the last callback
    time_display,       \* the string the last get_time_display() call returned
    auto_start_work_after_break, \* the configuration's auto_start_work_after_break
    listeners_available, \* environment: starting pynput listeners succeeds
    is_monitoring,      \* InputMonitor.is_monitoring
    is_user_considered_idle, \* InputMonitor.is_user_considered_idle
    listening,          \* InputMonitor's current listeners are started and not stopped
    callbacks,          \* listener callbacks in progress, begun in the current monitoring period
    stale_callbacks,    \* listener callbacks in progress, begun in an earlier monitoring period
    period_emissions,   \* history: activity_detected emissions since monitoring was last started
    activity_queue,     \* activity_detected emissions queued for the main thread
    hotkey_is_active    \* GlobalHotkeyManager.is_active (FALSE also when there is no manager)

\* InputMonitor's fields and its listener threads
monitor_vars ==
    << is_monitoring, is_user_considered_idle, listening, callbacks,
       stale_callbacks, period_emissions >>

\* what no callback of the timer writes
env_vars ==
    << auto_start_work_after_break, listeners_available, activity_queue,
       hotkey_is_active, time_display >>

vars == << config, current_state, previous_state, remaining_seconds,
           current_session, qt_timer_active, overlay_visible, emitted,
           completions, last_state_changed, op, session_shown, remaining_seen,
           monitor_vars,
           env_vars >>

(***************************************************************************)
(* Bounds of the model.                                                    *)
(***************************************************************************)
\* the phase durations the configuration may hold are 0..MaxDuration seconds
MaxDuration == 2
\* sessions_until_long_break ranges over 1..MaxSessionsUntilLong
MaxSessionsUntilLong == 3
\* a WORK countdown is not exhausted once current_session has reached MaxSession
MaxSession == 5
\* the overlay's extension is not applied beyond MaxRemaining seconds
MaxRemaining == 302
\* at most MaxCallbacks listener callbacks are in progress at a time
MaxCallbacks == 2
\* at most MaxQueue activity_detected emissions wait for the main thread
MaxQueue == 2

(***************************************************************************)
(* TimerState (timer/states.py).                                           *)
(***************************************************************************)
IDLE == "IDLE"
WORK == "WORK"
SHORT_BREAK == "SHORT_BREAK"
LONG_BREAK == "LONG_BREAK"
PAUSED == "PAUSED"

TimerState == {IDLE, WORK, SHORT_BREAK, LONG_BREAK, PAUSED}

\* the three counting states, as listed in pause()
RunningStates == {WORK, SHORT_BREAK, LONG_BREAK}

\* the two break states, as listed in _timer_finished and in the overlay
BreakStates == {SHORT_BREAK, LONG_BREAK}

(***************************************************************************)
(* The three signals of PomodoroTimer.  An event is a record; `state` is   *)
(* the TimerState argument (NoState for time_changed) and `value` the int  *)
(* argument (0 for the two signals that carry a state).                    *)
(***************************************************************************)
NoState == "-"

state_changed(s) == [signal |-> "state_changed", state |-> s, value |-> 0]

time_changed(v) == [signal |-> "time_changed", state |-> NoState, value |-> v]

session_completed(s) == [signal |-> "session_completed", state |-> s, value |-> 0]

(***************************************************************************)
(* The configurations the timer may be constructed with.                   *)
(***************************************************************************)
Configs ==
    [ work_duration_seconds        : 0..MaxDuration,
      short_break_duration_seconds : 0..MaxDuration,
      long_break_duration_seconds  : 0..MaxDuration,
      sessions_until_long_break    : 1..MaxSessionsUntilLong ]

(***************************************************************************)
(* The timer (and the overlay's visibility) as one record, the value the   *)
(* method operators transform.                                             *)
(***************************************************************************)
Self ==
    [ current_state     |-> current_state,
      previous_state    |-> previous_state,
      remaining_seconds |-> remaining_seconds,
      current_session   |-> current_session,
      qt_timer_active   |-> qt_timer_active,
      overlay_visible   |-> overlay_visible,
      completions       |-> completions,
      last_state_changed |-> last_state_changed,
      emitted           |-> << >>,
      session_shown     |-> << >>,
      remaining_seen    |-> << >>,
      is_monitoring     |-> is_monitoring,
      is_user_considered_idle |-> is_user_considered_idle,
      period_emissions  |-> period_emissions,
      listening         |-> listening,
      callbacks         |-> callbacks,
      stale_callbacks   |-> stale_callbacks,
      listeners_available |-> listeners_available ]

(***************************************************************************)
(* BreakOverlay's slots (gui/overlay.py).                                  *)
(***************************************************************************)
hide_overlay(t) == [t EXCEPT !.overlay_visible = FALSE]

update_display(t) ==
    IF t.current_state \in {SHORT_BREAK, LONG_BREAK, PAUSED}
    THEN t
    ELSE hide_overlay(t)

show_overlay(t) == [update_display(t) EXCEPT !.overlay_visible = TRUE]

on_state_changed(t, s) ==
    IF s \in BreakStates
    THEN show_overlay(t)
    ELSE IF s = PAUSED /\ t.previous_state \in BreakStates
         THEN update_display(t)
         ELSE hide_overlay(t)

on_time_changed(t) ==
    IF t.overlay_visible THEN update_display(t) ELSE t

(***************************************************************************)
(* InputMonitor (input/monitor.py), as called from the main thread.        *)
(***************************************************************************)
\* the places of a listener callback between two accesses to shared fields
CallbackPcs == {"_record_activity", "stop_monitoring", "stop_flags", "stop_listeners"}

NoCallbacks == [ pc \in CallbackPcs |-> 0 ]

CallbackCount(bag) ==
    bag["_record_activity"] + bag["stop_monitoring"] + bag["stop_flags"]
        + bag["stop_listeners"]

\* the old listeners are stopped and replaced: a callback still running on
\* one of their threads now belongs to an earlier monitoring period
_create_fresh_listeners(t) ==
    [t EXCEPT !.stale_callbacks = [ pc \in CallbackPcs |-> @[pc] + t.callbacks[pc] ],
              !.callbacks = NoCallbacks,
              !.listening = FALSE]

\* start_monitoring whose exception handler leaves is_monitoring set
start_monitoring_keeps_flag(t, timer_state) ==
    IF ~ auto_start_work_after_break THEN t
    ELSE IF timer_state # IDLE THEN t
    ELSE IF ~ t.is_monitoring
         THEN LET t1 == [t EXCEPT !.is_monitoring = TRUE,
                                  !.is_user_considered_idle = TRUE,
                                  !.period_emissions = 0]
              IN  IF t.listeners_available
                  THEN [_create_fresh_listeners(t1) EXCEPT !.listening = TRUE]
                  ELSE t1
         ELSE t

\* t.listeners_available = FALSE: the try block raises and the handler runs
start_monitoring(t, timer_state) ==
    IF ~ auto_start_work_after_break THEN t
    ELSE IF timer_state # IDLE THEN t
    ELSE IF ~ t.is_monitoring
         THEN LET t1 == [t EXCEPT !.is_monitoring = TRUE,
                                  !.is_user_considered_idle = TRUE,
                                  !.period_emissions = 0]
              IN  IF t.listeners_available
                  THEN [_create_fresh_listeners(t1) EXCEPT !.listening = TRUE]
                  ELSE [t1 EXCEPT !.is_monitoring = FALSE]
         ELSE t

\* stop_monitoring that leaves is_monitoring set
stop_monitoring_keeps_flag(t) ==
    IF t.is_monitoring
    THEN [t EXCEPT !.is_user_considered_idle = FALSE,
                   !.listening = FALSE]
    ELSE t

stop_monitoring(t) ==
    IF t.is_monitoring
    THEN [t EXCEPT !.is_monitoring = FALSE,
                   !.is_user_considered_idle = FALSE,
                   !.listening = FALSE]
    ELSE t

(***************************************************************************)
(* PyomodoroApp's and MainWindow's slots (app.py, gui/main_window.py).     *)
(***************************************************************************)
_on_timer_state_changed(t, state) ==
    IF state = IDLE
    THEN start_monitoring(t, state)
    ELSE stop_monitoring(t)

\* MainWindow.on_session_completed
on_session_completed(t, completed_state) ==
    IF completed_state = WORK
    THEN [t EXCEPT !.session_shown = Append(@, t.current_session)]
    ELSE t

(***************************************************************************)
(* Signal emission: the event is recorded, then the connected slots run.   *)
(***************************************************************************)
emit_state_changed(t, s) ==
    _on_timer_state_changed(
        on_state_changed([t EXCEPT !.emitted = Append(@, state_changed(s)),
                                   !.last_state_changed = s,
                                   !.remaining_seen = Append(@, t.remaining_seconds)],
                         s), s)

emit_time_changed(t) ==
    on_time_changed([t EXCEPT !.emitted = Append(@, time_changed(t.remaining_seconds))])

emit_session_completed(t, s) ==
    on_session_completed(
        [t EXCEPT !.emitted = Append(@, session_completed(s)),
                  !.completions = IF s = WORK THEN @ + 1 ELSE @], s)

(***************************************************************************)
(* PomodoroTimer's methods (timer/core.py).                                *)
(***************************************************************************)
\* _change_state that emits also when the state stays the same
_change_state_always_emits(t, new_state) ==
    emit_state_changed([t EXCEPT !.current_state = new_state], new_state)

_change_state(t, new_state) ==
    IF new_state # t.current_state
    THEN emit_state_changed([t EXCEPT !.current_state = new_state], new_state)
    ELSE t

_start_timer(t) == emit_time_changed([t EXCEPT !.qt_timer_active = TRUE])

\* start_work_session that loads the work duration before it changes state
start_work_session_loads_first(t) ==
    IF t.current_state # IDLE
    THEN t
    ELSE _start_timer(_change_state(
             [t EXCEPT !.remaining_seconds = config.work_duration_seconds], WORK))

\* start_work_session without its state guard
start_work_session_unguarded(t) ==
    LET t1 == _change_state(t, WORK)
        t2 == [t1 EXCEPT !.remaining_seconds = config.work_duration_seconds]
    IN  _start_timer(t2)

\* start_work_session that does not load the work duration
start_work_session_no_load(t) ==
    IF t.current_state # IDLE
    THEN t
    ELSE _start_timer(_change_state(t, WORK))

start_work_session(t) ==
    IF t.current_state # IDLE
    THEN t
    ELSE LET t1 == _change_state(t, WORK)
             t2 == [t1 EXCEPT !.remaining_seconds = config.work_duration_seconds]
         IN  _start_timer(t2)

\* Python's a % b for b # 0: the result has the sign of the divisor
py_mod(a, b) ==
    CASE b > 0 -> a % b
      [] b < 0 -> - ((- a) % (- b))

\* the break-kind rule raises ZeroDivisionError: `and` evaluates the
\* modulo only when completed_sessions > 0
is_long_break_raises(t) ==
    LET completed_sessions == t.current_session - 1
    IN  completed_sessions > 0
        /\ config.sessions_until_long_break = 0

\* the break-kind rule computed on current_session instead of current_session - 1
is_long_break_off_by_one(t) ==
    LET completed_sessions == t.current_session
    IN  completed_sessions > 0
        /\ completed_sessions % config.sessions_until_long_break = 0

is_long_break(t) ==
    LET completed_sessions == t.current_session - 1
    IN  completed_sessions > 0
        /\ py_mod(completed_sessions, config.sessions_until_long_break) = 0

\* start_break with the two durations exchanged
start_break_swapped(t) ==
    IF t.current_state # WORK
    THEN t
    ELSE IF is_long_break(t)
         THEN _start_timer([_change_state(t, LONG_BREAK) EXCEPT
                  !.remaining_seconds = config.short_break_duration_seconds])
         ELSE _start_timer([_change_state(t, SHORT_BREAK) EXCEPT
                  !.remaining_seconds = config.long_break_duration_seconds])

\* when the break-kind rule raises, the exception leaves start_break (and
\* _timer_finished and _tick, which have no statement after the call)
\* before any assignment
start_break(t) ==
    IF t.current_state # WORK
    THEN t
    ELSE IF is_long_break_raises(t)
    THEN t
    ELSE IF is_long_break(t)
         THEN _start_timer([_change_state(t, LONG_BREAK) EXCEPT
                  !.remaining_seconds = config.long_break_duration_seconds])
         ELSE _start_timer([_change_state(t, SHORT_BREAK) EXCEPT
                  !.remaining_seconds = config.short_break_duration_seconds])

\* pause that does not save the state it suspends
pause_without_save(t) ==
    IF t.current_state \in RunningStates
    THEN _change_state([t EXCEPT !.qt_timer_active = FALSE], PAUSED)
    ELSE t

\* pause without its state guard
pause_unguarded(t) ==
    LET t1 == [t EXCEPT !.qt_timer_active = FALSE]
        t2 == [t1 EXCEPT !.previous_state = t1.current_state]
    IN  _change_state(t2, PAUSED)

\* pause that leaves the QTimer running
pause_without_stop(t) ==
    IF t.current_state \in RunningStates
    THEN _change_state([t EXCEPT !.previous_state = t.current_state], PAUSED)
    ELSE t

\* pause that saves the state after it has changed to PAUSED
pause_saves_after_change(t) ==
    IF t.current_state \in RunningStates
    THEN LET t1 == _change_state([t EXCEPT !.qt_timer_active = FALSE], PAUSED)
         IN  [t1 EXCEPT !.previous_state = t1.current_state]
    ELSE t

pause(t) ==
    IF t.current_state \in RunningStates
    THEN LET t1 == [t EXCEPT !.qt_timer_active = FALSE]
             t2 == [t1 EXCEPT !.previous_state = t1.current_state]
         IN  _change_state(t2, PAUSED)
    ELSE t

\* resume that does not restart the QTimer
resume_without_start(t) ==
    IF t.current_state = PAUSED
    THEN _change_state(t, t.previous_state)
    ELSE t

resume(t) ==
    IF t.current_state = PAUSED
    THEN _start_timer(_change_state(t, t.previous_state))
    ELSE t

\* reset that leaves the QTimer running
reset_without_stop(t) ==
    LET t2 == _change_state(t, IDLE)
    IN  [t2 EXCEPT !.previous_state = IDLE,
                   !.remaining_seconds = 0,
                   !.current_session = 1,
                   !.completions = 0]

\* reset that keeps the countdown value
reset_keeps_remaining(t) ==
    LET t1 == [t EXCEPT !.qt_timer_active = FALSE]
        t2 == _change_state(t1, IDLE)
    IN  [t2 EXCEPT !.previous_state = IDLE,
                   !.current_session = 1,
                   !.completions = 0]

reset(t) ==
    LET t1 == [t EXCEPT !.qt_timer_active = FALSE]
        t2 == _change_state(t1, IDLE)
    IN  [t2 EXCEPT !.previous_state = IDLE,
                   !.remaining_seconds = 0,
                   !.current_session = 1,
                   !.completions = 0]

\* _timer_finished that emits session_completed before it increments
_timer_finished_emits_before_increment(t) ==
    LET t1 == [t EXCEPT !.qt_timer_active = FALSE]
        finished_state == t1.current_state
    IN  IF finished_state = WORK
        THEN LET t2 == emit_session_completed(t1, finished_state)
                 t3 == [t2 EXCEPT !.current_session = @ + 1]
             IN  start_break(t3)
        ELSE IF finished_state \in BreakStates
             THEN emit_session_completed(_change_state(t1, IDLE), finished_state)
             ELSE t1

\* _timer_finished that counts a finished break as a session too
_timer_finished_counts_breaks(t) ==
    LET t1 == [t EXCEPT !.qt_timer_active = FALSE]
        finished_state == t1.current_state
    IN  IF finished_state = WORK
        THEN LET t2 == [t1 EXCEPT !.current_session = @ + 1]
                 t3 == emit_session_completed(t2, finished_state)
             IN  start_break(t3)
        ELSE IF finished_state \in BreakStates
             THEN emit_session_completed(
                      _change_state([t1 EXCEPT !.current_session = @ + 1], IDLE),
                      finished_state)
             ELSE t1

\* _timer_finished that passes through IDLE before the break is started
_timer_finished_via_idle(t) ==
    LET t1 == [t EXCEPT !.qt_timer_active = FALSE]
        finished_state == t1.current_state
    IN  IF finished_state = WORK
        THEN LET t2 == [t1 EXCEPT !.current_session = @ + 1]
                 t3 == emit_session_completed(_change_state(t2, IDLE), finished_state)
             IN  start_break(t3)
        ELSE IF finished_state \in BreakStates
             THEN emit_session_completed(_change_state(t1, IDLE), finished_state)
             ELSE t1

\* _timer_finished that starts the next work session when a break ends
_timer_finished_auto_restart(t) ==
    LET t1 == [t EXCEPT !.qt_timer_active = FALSE]
        finished_state == t1.current_state
    IN  IF finished_state = WORK
        THEN LET t2 == [t1 EXCEPT !.current_session = @ + 1]
                 t3 == emit_session_completed(t2, finished_state)
             IN  start_break(t3)
        ELSE IF finished_state \in BreakStates
             THEN start_work_session(
                      emit_session_completed(_change_state(t1, IDLE), finished_state))
             ELSE t1

_timer_finished(t) ==
    LET t1 == [t EXCEPT !.qt_timer_active = FALSE]
        finished_state == t1.current_state
    IN  IF finished_state = WORK
        THEN LET t2 == [t1 EXCEPT !.current_session = @ + 1]
                 t3 == emit_session_completed(t2, finished_state)
             IN  start_break(t3)
        ELSE IF finished_state \in BreakStates
             THEN emit_session_completed(_change_state(t1, IDLE), finished_state)
             ELSE t1

\* _tick that does not decrement remaining_seconds
_tick_without_decrement(t) ==
    LET t1 == emit_time_changed(t)
    IN  IF t1.remaining_seconds <= 0 THEN _timer_finished(t1) ELSE t1

\* _tick that finishes only below zero
_tick_strict(t) ==
    LET t1 == [t EXCEPT !.remaining_seconds = @ - 1]
        t2 == emit_time_changed(t1)
    IN  IF t2.remaining_seconds < 0 THEN _timer_finished(t2) ELSE t2

\* _tick that emits time_changed before it decrements
_tick_emits_before_decrement(t) ==
    LET t1 == emit_time_changed(t)
        t2 == [t1 EXCEPT !.remaining_seconds = @ - 1]
    IN  IF t2.remaining_seconds <= 0 THEN _timer_finished(t2) ELSE t2

_tick(t) ==
    LET t1 == [t EXCEPT !.remaining_seconds = @ - 1]
        t2 == emit_time_changed(t1)
    IN  IF t2.remaining_seconds <= 0 THEN _timer_finished(t2) ELSE t2

(***************************************************************************)
(* get_time_display: f"{minutes:02d}:{seconds:02d}".                       *)
(***************************************************************************)
\* the decimal digit d as a character
Digit(d) ==
    CASE d = 0 -> "0" [] d = 1 -> "1" [] d = 2 -> "2" [] d = 3 -> "3"
      [] d = 4 -> "4" [] d = 5 -> "5" [] d = 6 -> "6" [] d = 7 -> "7"
      [] d = 8 -> "8" [] d = 9 -> "9"

RECURSIVE str(_)
\* the decimal representation of the integer n, as Python's str(n)
str(n) ==
    IF n < 0 THEN "-" \o str(0 - n)
    ELSE IF n < 10 THEN Digit(n)
    ELSE str(n \div 10) \o Digit(n % 10)

\* the format specification 02d without its zero fill
format_02d_unpadded(n) == str(n)

\* the format specification 02d: at least two characters, filled with
\* zeros on the left; only a single digit is shorter than two characters
format_02d(n) ==
    IF 0 <= n /\ n < 10 THEN "0" \o str(n) ELSE str(n)

\* // and % are Python's floor division and modulo, as \div and % are
get_time_display(t) ==
    LET minutes == t.remaining_seconds \div 60
        seconds == t.remaining_seconds % 60
    IN  format_02d(minutes) \o ":" \o format_02d(seconds)

\* an activity handler that also resumes a paused phase
_on_user_activity_toggles(t) ==
    IF t.current_state = PAUSED THEN resume(t) ELSE start_work_session(t)

\* PyomodoroApp._on_user_activity
_on_user_activity(t) ==
    IF t.current_state = IDLE THEN start_work_session(t) ELSE t

\* a hotkey handler that toggles as the Start button does
_on_global_hotkey_toggles(t) ==
    IF t.current_state = PAUSED THEN resume(t) ELSE start_work_session(t)

\* PyomodoroApp._on_global_hotkey
_on_global_hotkey(t) == start_work_session(t)

(***************************************************************************)
(* BreakOverlay's buttons (gui/overlay.py).                                *)
(***************************************************************************)
extension_seconds == 300

\* extend_break that restarts the countdown as a phase start does
extend_break_restarts_countdown(t) ==
    _start_timer([t EXCEPT !.remaining_seconds = @ + extension_seconds])

extend_break(t) ==
    emit_time_changed([t EXCEPT !.remaining_seconds = @ + extension_seconds])

\* skip_break that keeps the session counter
skip_break_keeps_session(t) ==
    hide_overlay([reset(t) EXCEPT !.current_session = t.current_session])

skip_break(t) == hide_overlay(reset(t))

(***************************************************************************)
(* A callback's result becomes the next state.                             *)
(***************************************************************************)
Callback(name, t) ==
    /\ current_state' = t.current_state
    /\ previous_state' = t.previous_state
    /\ remaining_seconds' = t.remaining_seconds
    /\ current_session' = t.current_session
    /\ qt_timer_active' = t.qt_timer_active
    /\ overlay_visible' = t.overlay_visible
    /\ completions' = t.completions
    /\ last_state_changed' = t.last_state_changed
    /\ emitted' = t.emitted
    /\ session_shown' = t.session_shown
    /\ remaining_seen' = t.remaining_seen
    /\ is_monitoring' = t.is_monitoring
    /\ is_user_considered_idle' = t.is_user_considered_idle
    /\ period_emissions' = t.period_emissions
    /\ listening' = t.listening
    /\ callbacks' = t.callbacks
    /\ stale_callbacks' = t.stale_callbacks
    /\ op' = name
    /\ UNCHANGED config

Commit(name, t) ==
    /\ Callback(name, t)
    /\ UNCHANGED env_vars

\* GlobalHotkeyManager.start_monitoring; registers: the listener starts
hotkey_start_monitoring(registers) == registers

\* the application after construction: autos are the values
\* auto_start_work_after_break may have, hotkeys the outcomes the
\* registration of the global hotkey may have (FALSE: it failed)
InitApp(autos, availables, hotkeys) ==
    /\ auto_start_work_after_break \in autos
    /\ listeners_available \in availables
    /\ \E registers \in hotkeys :
           hotkey_is_active = hotkey_start_monitoring(registers)
    /\ is_monitoring = FALSE
    /\ is_user_considered_idle = FALSE
    /\ period_emissions = 0
    /\ listening = FALSE
    /\ callbacks = NoCallbacks
    /\ stale_callbacks = NoCallbacks
    /\ activity_queue = 0
    /\ session_shown = << >>
    /\ remaining_seen = << >>
    /\ time_display = ""

\* the timer without auto-start and without a global hotkey
Init ==
    /\ InitApp({FALSE}, {TRUE}, {FALSE})
    /\ config \in Configs
    /\ current_state = IDLE
    /\ previous_state = IDLE
    /\ remaining_seconds = 0
    /\ current_session = 1
    /\ qt_timer_active = FALSE
    /\ overlay_visible = FALSE
    /\ emitted = << >>
    /\ completions = 0
    /\ last_state_changed = NoState
    /\ op = "__init__"

\* the commands of the timer core
StartWorkSession == Commit("start_work_session", start_work_session(Self))

StartBreak == Commit("start_break", start_break(Self))

Pause == Commit("pause", pause(Self))

Resume == Commit("resume", resume(Self))

Reset == Commit("reset", reset(Self))

\* a timeout that may be dropped without running _tick
TickMayBeDropped ==
    /\ qt_timer_active
    /\ ~ ( /\ current_state = WORK
           /\ remaining_seconds - 1 <= 0
           /\ current_session >= MaxSession )
    /\ \/ Commit("_tick", _tick(Self))
       \/ Commit("_tick", Self)

\* a timeout of qt_timer, delivered only while the QTimer is active
Tick ==
    /\ qt_timer_active
    /\ ~ ( /\ current_state = WORK
           /\ remaining_seconds - 1 <= 0
           /\ current_session >= MaxSession )
    /\ Commit("_tick", _tick(Self))

\* the overlay's buttons can be clicked only while the overlay is shown
ExtendBreak ==
    /\ overlay_visible
    /\ remaining_seconds + extension_seconds <= MaxRemaining
    /\ Commit("extend_break", extend_break(Self))

SkipBreak ==
    /\ overlay_visible
    /\ Commit("skip_break", skip_break(Self))

\* the timer driven by its commands, its ticks and the overlay's Skip button
Next ==
    \/ StartWorkSession
    \/ StartBreak
    \/ Pause
    \/ Resume
    \/ Reset
    \/ Tick
    \/ SkipBreak

Spec == Init /\ [][Next]_vars

(***************************************************************************)
(* The same timer with the overlay's Extend button.  An extension adds 300 *)
(* one-second ticks to a break, so this specification is explored for the  *)
(* configurations that give the three phases the same duration.            *)
(***************************************************************************)
UniformConfigs ==
    { c \in Configs :
        /\ c.short_break_duration_seconds = c.work_duration_seconds
        /\ c.long_break_duration_seconds = c.work_duration_seconds }

InitOverlay == Init /\ config \in UniformConfigs

NextOverlay ==
    \/ Next
    \/ ExtendBreak

SpecOverlay == InitOverlay /\ [][NextOverlay]_vars

(***************************************************************************)
(* Properties.                                                             *)
(***************************************************************************)
\* the timer's own fields, qt_timer included
timer_fields ==
    << current_state, previous_state, remaining_seconds, current_session,
       qt_timer_active >>

\* the state __init__ builds
ConstructedState ==
    /\ current_state = IDLE
    /\ previous_state = IDLE
    /\ remaining_seconds = 0
    /\ current_session = 1
    /\ ~ qt_timer_active

IsSessionCompleted(e) == e.signal = "session_completed"

IsStateChanged(e) == e.signal = "state_changed"

Events(seq) == { seq[i] : i \in DOMAIN seq }

Count(seq, e) == Cardinality({ i \in DOMAIN seq : seq[i] = e })

\* the duration the configuration holds for a break state
BreakDuration(s) ==
    IF s = LONG_BREAK
    THEN config.long_break_duration_seconds
    ELSE config.short_break_duration_seconds

\* this step is a tick that brings the countdown of phase s to <= 0
Exhausts(s) ==
    /\ op' = "_tick"
    /\ current_state = s
    /\ remaining_seconds - 1 <= 0

\* C1: reset() from any state stops the countdown and leaves exactly the
\* constructor's state (IDLE, previous_state IDLE, remaining_seconds 0,
\* current_session 1); from there nothing but start_work_session() changes
\* the timer, so no tick decrements remaining_seconds until a phase starts.
C1_ResetYieldsConstructedState ==
    [][ /\ (op' = "reset" => ConstructedState')
        /\ (ConstructedState /\ op' # "start_work_session" => ConstructedState')
      ]_vars

\* reset() has cancelled a phase that was running or paused
C1_Witness ==
    /\ op = "reset"
    /\ emitted = << state_changed(IDLE) >>
    /\ ConstructedState

\* C2: start_work_session() in IDLE enters WORK, loads the configured
\* work_duration_seconds, starts the countdown and keeps current_session.
C2_StartWorkSessionFromIdle ==
    [][ (op' = "start_work_session" /\ current_state = IDLE) =>
            /\ current_state' = WORK
            /\ remaining_seconds' = config.work_duration_seconds
            /\ qt_timer_active'
            /\ current_session' = current_session
      ]_vars

\* a second work session has been started with a 2-second work duration
C2_Witness ==
    /\ op = "start_work_session"
    /\ current_state = WORK
    /\ current_session = 2
    /\ remaining_seconds = 2
    /\ emitted = << state_changed(WORK), time_changed(2) >>
    /\ qt_timer_active

\* C3: start_work_session() in WORK, SHORT_BREAK, LONG_BREAK or PAUSED
\* changes no field of the timer, leaves the countdown as it was and emits
\* no event.
C3_StartWorkSessionNoOp ==
    [][ (op' = "start_work_session" /\ current_state # IDLE) =>
            /\ UNCHANGED timer_fields
            /\ emitted' = << >>
      ]_vars

\* start_work_session() was called during a paused break and did nothing
C3_Witness ==
    /\ op = "start_work_session"
    /\ current_state = PAUSED
    /\ previous_state = SHORT_BREAK
    /\ remaining_seconds > 0
    /\ emitted = << >>

\* C4: pause() in a running state s with r seconds left yields PAUSED with
\* previous_state = s, r seconds left and the countdown stopped; no tick
\* happens while PAUSED; resume() right after that pause() yields state s
\* with r seconds left and the countdown active; current_session is kept.
C4_PauseResumeRoundTrip ==
    [][ /\ (op' = "pause" /\ current_state \in RunningStates) =>
               /\ current_state' = PAUSED
               /\ previous_state' = current_state
               /\ remaining_seconds' = remaining_seconds
               /\ ~ qt_timer_active'
               /\ current_session' = current_session
        /\ (current_state = PAUSED => op' # "_tick")
        /\ (op = "pause" /\ current_state = PAUSED /\ op' = "resume") =>
               /\ current_state' = previous_state
               /\ current_state' \in RunningStates
               /\ remaining_seconds' = remaining_seconds
               /\ qt_timer_active'
               /\ current_session' = current_session
      ]_vars

\* a paused long break has been resumed
C4_Witness ==
    /\ op = "resume"
    /\ current_state = LONG_BREAK
    /\ previous_state = LONG_BREAK
    /\ emitted = << state_changed(LONG_BREAK), time_changed(remaining_seconds) >>
    /\ qt_timer_active

\* C5: pause() in IDLE or PAUSED, resume() outside PAUSED and start_break()
\* outside WORK change no field of the timer, leave the countdown as it was
\* and emit no event; pause() while PAUSED keeps previous_state.
C5_WrongStateCommandsNoOp ==
    [][ ( \/ (op' = "pause" /\ current_state \in {IDLE, PAUSED})
          \/ (op' = "resume" /\ current_state # PAUSED)
          \/ (op' = "start_break" /\ current_state # WORK) ) =>
            /\ UNCHANGED timer_fields
            /\ emitted' = << >>
            /\ previous_state' # PAUSED
      ]_vars

\* pause() was called on a paused work session and did nothing
C5_Witness ==
    /\ op = "pause"
    /\ current_state = PAUSED
    /\ previous_state = WORK
    /\ emitted = << >>

\* C6: counting from the last reset(), the break entered when the k-th
\* work session is exhausted is LONG_BREAK iff k mod
\* sessions_until_long_break = 0 and SHORT_BREAK otherwise, whatever
\* pauses, resumes and break extensions happened in between.
C6_LongBreakCadence ==
    [][ Exhausts(WORK) =>
            /\ completions' = completions + 1
            /\ current_state' \in BreakStates
            /\ (current_state' = LONG_BREAK) <=>
                   (completions' % config.sessions_until_long_break = 0)
      ]_vars

\* with a long break every 2 sessions, the 4th completion enters a long break
C6_Witness ==
    /\ op = "_tick"
    /\ config.sessions_until_long_break = 2
    /\ completions = 4
    /\ current_state = LONG_BREAK
    /\ session_completed(WORK) \in Events(emitted)

\* the break start_break() must enter when current_session is cs
BreakEntered(cs) ==
    LET completed == cs - 1
    IN  /\ IF completed > 0 /\ completed % config.sessions_until_long_break = 0
           THEN /\ current_state' = LONG_BREAK
                /\ remaining_seconds' = config.long_break_duration_seconds
           ELSE /\ current_state' = SHORT_BREAK
                /\ remaining_seconds' = config.short_break_duration_seconds
        /\ qt_timer_active'
        /\ current_session' = cs

\* C7: start_break() in WORK enters LONG_BREAK with the long duration iff
\* current_session - 1 is positive and a multiple of
\* sessions_until_long_break, else SHORT_BREAK with the short duration; the
\* countdown is active and current_session is kept.  (When the call is
\* made by a WORK exhaustion, current_session is the incremented one.)
C7_StartBreakRule ==
    [][ /\ (op' = "start_break" /\ current_state = WORK) =>
               BreakEntered(current_session)
        /\ Exhausts(WORK) => BreakEntered(current_session')
      ]_vars

\* start_break() was called on a work session and entered a long break
C7_Witness ==
    /\ op = "start_break"
    /\ current_state = LONG_BREAK
    /\ remaining_seconds = config.long_break_duration_seconds
    /\ config.long_break_duration_seconds # config.short_break_duration_seconds
    /\ emitted = << state_changed(LONG_BREAK), time_changed(remaining_seconds) >>
    /\ qt_timer_active

\* C8: the tick that exhausts a WORK countdown increments current_session
\* by 1, emits session_completed(WORK) once and ends in a break state with
\* that break's duration loaded and the countdown active; no
\* state_changed(IDLE) is emitted, so the state is never IDLE in between.
C8_WorkExhaustionAtomic ==
    [][ Exhausts(WORK) =>
            /\ current_session' = current_session + 1
            /\ Count(emitted', session_completed(WORK)) = 1
            /\ current_state' \in BreakStates
            /\ remaining_seconds' = BreakDuration(current_state')
            /\ qt_timer_active'
            /\ state_changed(IDLE) \notin Events(emitted')
            /\ Count(emitted', state_changed(current_state')) = 1
      ]_vars

\* a 1-second work session was exhausted by its first tick
C8_Witness ==
    /\ op = "_tick"
    /\ config.work_duration_seconds = 1
    /\ current_state = SHORT_BREAK
    /\ current_session = 2
    /\ emitted = << time_changed(0), session_completed(WORK),
                    state_changed(SHORT_BREAK),
                    time_changed(config.short_break_duration_seconds) >>

\* C9: the tick that exhausts a break countdown stops the countdown, enters
\* IDLE, emits state_changed(IDLE) and then session_completed(that break)
\* once and keeps current_session; the timer leaves IDLE only by
\* start_work_session().
C9_BreakExhaustion ==
    [][ /\ \A b \in BreakStates :
               Exhausts(b) =>
                   /\ ~ qt_timer_active'
                   /\ current_state' = IDLE
                   /\ emitted' = << time_changed(remaining_seconds - 1),
                                    state_changed(IDLE),
                                    session_completed(b) >>
                   /\ current_session' = current_session
        /\ (current_state = IDLE /\ current_state' # IDLE) =>
               op' = "start_work_session"
      ]_vars

\* a long break was exhausted
C9_Witness ==
    /\ op = "_tick"
    /\ current_state = IDLE
    /\ ~ qt_timer_active
    /\ session_completed(LONG_BREAK) \in Events(emitted)

\* C10: a callback emits session_completed exactly when it is a tick that
\* brings the countdown to <= 0, then once and carrying the state that was
\* counting down (WORK, SHORT_BREAK or LONG_BREAK); reset(), pause() and
\* every other callback emit none.
C10_SessionCompletedOncePerExhaustion ==
    [][ IF op' = "_tick" /\ remaining_seconds - 1 <= 0
        THEN /\ current_state \in RunningStates
             /\ SelectSeq(emitted', IsSessionCompleted)
                    = << session_completed(current_state) >>
        ELSE SelectSeq(emitted', IsSessionCompleted) = << >>
      ]_vars

\* a 0-second short break was exhausted with remaining_seconds below zero
C10_Witness ==
    /\ op = "_tick"
    /\ remaining_seconds < 0
    /\ SelectSeq(emitted, IsSessionCompleted) = << session_completed(SHORT_BREAK) >>

\* the states carried by the state_changed events of a sequence, in order
StateChangedStates(seq) ==
    LET sc == SelectSeq(seq, IsStateChanged)
    IN  [ i \in DOMAIN sc |-> sc[i].state ]

\* C11: the state_changed events of a step list exactly the changes of
\* current_state: none when it stays the same, else each carries a state
\* different from the one before it and the last one carries the new
\* current_state; and no state_changed carries the state that the latest
\* state_changed before it carried.
C11_StateChangedExactlyOnChange ==
    [][ LET states == StateChangedStates(emitted')
            path == << current_state >> \o states
            emissions == << last_state_changed >> \o states
        IN  /\ path[Len(path)] = current_state'
            /\ \A i \in 1..(Len(path) - 1) : path[i] # path[i + 1]
            /\ \A i \in 1..(Len(emissions) - 1) : emissions[i] # emissions[i + 1]
            /\ (current_state' # current_state) => states # << >>
      ]_vars

\* reset() was called on a timer that had already returned to IDLE
C11_Witness ==
    /\ op = "reset"
    /\ last_state_changed = IDLE
    /\ current_state = IDLE
    /\ emitted = << >>

IsTimeChanged(e) == e.signal = "time_changed"

\* the values carried by the time_changed events of a sequence, in order
TimeChangedValues(seq) ==
    LET tc == SelectSeq(seq, IsTimeChanged)
    IN  [ i \in DOMAIN tc |-> tc[i].value ]

\* this step is a command that sets a new countdown value
SetsCountdownValue ==
    \/ (op' = "start_work_session" /\ current_state = IDLE)
    \/ (op' = "start_break" /\ current_state = WORK)
    \/ (op' \in {"reset", "skip_break"} /\ remaining_seconds' # remaining_seconds)

\* C12: a tick emits time_changed with the decremented value, and a
\* command that sets a new countdown value (start_work_session,
\* start_break, reset) emits time_changed so that the last value emitted
\* is the remaining_seconds it leaves.
C12_TimeChangedAfterEverySet ==
    [][ /\ (op' = "_tick") =>
               /\ TimeChangedValues(emitted') # << >>
               /\ TimeChangedValues(emitted')[1] = remaining_seconds - 1
        /\ SetsCountdownValue =>
               LET values == TimeChangedValues(emitted')
               IN  /\ values # << >>
                   /\ values[Len(values)] = remaining_seconds'
      ]_vars

\* C13: a tick emits, first of all, time_changed with remaining_seconds
\* decremented by exactly 1; when that value is still positive the tick
\* emits nothing else, leaves remaining_seconds at it, keeps current_state,
\* previous_state and current_session and leaves the countdown active; a
\* tick changes current_state only when it exhausts the countdown.
C13_TickSemantics ==
    [][ (op' = "_tick") =>
            /\ emitted' # << >>
            /\ emitted'[1] = time_changed(remaining_seconds - 1)
            /\ (remaining_seconds - 1 > 0) =>
                   /\ emitted' = << time_changed(remaining_seconds - 1) >>
                   /\ remaining_seconds' = remaining_seconds - 1
                   /\ UNCHANGED << current_state, previous_state, current_session >>
                   /\ qt_timer_active'
            /\ (current_state' # current_state) => remaining_seconds - 1 <= 0
      ]_vars

\* a 2-second work session has had its first, non-exhausting tick
C13_Witness ==
    /\ op = "_tick"
    /\ current_state = WORK
    /\ remaining_seconds = 1
    /\ emitted = << time_changed(1) >>
    /\ qt_timer_active

\* the callbacks that run PomodoroTimer.reset()
ResetCallbacks == {"reset", "skip_break"}

\* C14: a tick happens only in WORK, SHORT_BREAK or LONG_BREAK; pause()
\* and resume() keep remaining_seconds; and a step that begins and ends in
\* IDLE or PAUSED changes remaining_seconds only if it is a reset() or the
\* overlay's break extension.
C14_RemainingChangesOnlyWhileRunning ==
    [][ /\ (op' = "_tick") => current_state \in RunningStates
        /\ (op' \in {"pause", "resume"}) => remaining_seconds' = remaining_seconds
        /\ ( /\ current_state \in {IDLE, PAUSED}
             /\ current_state' \in {IDLE, PAUSED}
             /\ remaining_seconds' # remaining_seconds ) =>
               op' \in ResetCallbacks \cup {"extend_break"}
        /\ (remaining_seconds' < remaining_seconds) =>
               \/ op' = "_tick"
               \/ op' \in ResetCallbacks
               \/ op' \in {"start_work_session", "start_break"}
      ]_vars

\* an extended break was paused with its remaining_seconds kept
C14_Witness ==
    /\ op = "pause"
    /\ current_state = PAUSED
    /\ previous_state \in BreakStates
    /\ remaining_seconds > extension_seconds
    /\ ~ qt_timer_active
    /\ emitted = << state_changed(PAUSED) >>

\* C15: in every step current_session stays the same, or increases by
\* exactly 1 in a tick that exhausts a WORK countdown, or is set to 1 by
\* a reset(); no other step changes it.
C15_CurrentSessionSteps ==
    [][ \/ current_session' = current_session
        \/ (current_session' = current_session + 1 /\ Exhausts(WORK))
        \/ (current_session' = 1 /\ op' \in ResetCallbacks)
      ]_vars

\* the second WORK countdown was exhausted and current_session became 3
C15_Witness ==
    /\ op = "_tick"
    /\ current_state \in BreakStates
    /\ current_session = 3
    /\ completions = 2
    /\ overlay_visible
    /\ emitted[2] = session_completed(WORK)

\* C16: remaining_seconds >= 0 and current_session >= 1 in every state,
\* and no time_changed event carries a negative value.
C16_RemainingNeverNegative ==
    /\ remaining_seconds >= 0
    /\ current_session >= 1
    /\ \A i \in DOMAIN emitted : emitted[i].value >= 0

(***************************************************************************)
(* TimerController: the start/pause/reset entry points of the main window  *)
(* and the tray menu, and the button-state queries.                        *)
(***************************************************************************)

\* no core command is invoked
NoCall == "-"

\* self.timer.<cmd>() as called from the controller
Invoke(cmd, t) ==
    CASE cmd = "start_work_session" -> start_work_session(t)
      [] cmd = "resume" -> resume(t)
      [] cmd = "pause" -> pause(t)
      [] cmd = "reset" -> reset(t)
      [] OTHER -> t

\* the state in which a core command is not a no-op
Precondition(cmd, s) ==
    CASE cmd = "start_work_session" -> s = IDLE
      [] cmd = "resume" -> s = PAUSED
      [] cmd = "pause" -> s \in RunningStates
      [] OTHER -> TRUE

\* start_or_resume whose else branch pauses a running timer
start_or_resume_call_toggles(t) ==
    IF t.current_state = IDLE THEN "start_work_session"
    ELSE IF t.current_state = PAUSED THEN "resume"
    ELSE "pause"

\* the core command start_or_resume() chooses
start_or_resume_call(t) ==
    IF t.current_state = IDLE THEN "start_work_session"
    ELSE IF t.current_state = PAUSED THEN "resume"
    ELSE NoCall

start_or_resume(t) == Invoke(start_or_resume_call(t), t)

\* pause_or_resume that starts a session when the timer is IDLE
pause_or_resume_call_starts(t) ==
    IF t.current_state \in {WORK, SHORT_BREAK, LONG_BREAK} THEN "pause"
    ELSE IF t.current_state = PAUSED THEN "resume"
    ELSE "start_work_session"

\* the core command pause_or_resume() chooses
pause_or_resume_call(t) ==
    IF t.current_state \in {WORK, SHORT_BREAK, LONG_BREAK} THEN "pause"
    ELSE IF t.current_state = PAUSED THEN "resume"
    ELSE NoCall

pause_or_resume(t) == Invoke(pause_or_resume_call(t), t)

\* TimerController.reset
controller_reset(t) == Invoke("reset", t)

get_start_button_state(t) ==
    IF t.current_state = IDLE THEN << TRUE, "Start" >>
    ELSE IF t.current_state = PAUSED THEN << TRUE, "Resume" >>
    ELSE << FALSE, "Start" >>

\* a pause button that is disabled while PAUSED
get_pause_button_state_running_only(t) ==
    IF t.current_state \in {WORK, SHORT_BREAK, LONG_BREAK} THEN << TRUE, "Pause" >>
    ELSE IF t.current_state = PAUSED THEN << FALSE, "Resume" >>
    ELSE << FALSE, "Pause" >>

get_pause_button_state(t) ==
    IF t.current_state \in {WORK, SHORT_BREAK, LONG_BREAK} THEN << TRUE, "Pause" >>
    ELSE IF t.current_state = PAUSED THEN << TRUE, "Resume" >>
    ELSE << FALSE, "Pause" >>

can_start(t) == t.current_state \in {IDLE, PAUSED}

can_pause(t) == t.current_state \in {WORK, SHORT_BREAK, LONG_BREAK, PAUSED}

\* main window / tray "Start"
StartOrResume == Commit("start_or_resume", start_or_resume(Self))

\* main window / tray / overlay "Pause"
PauseOrResume == Commit("pause_or_resume", pause_or_resume(Self))

\* main window / tray "Reset"
ControllerReset == Commit("controller.reset", controller_reset(Self))

NextController ==
    \/ Next
    \/ StartOrResume
    \/ PauseOrResume
    \/ ControllerReset

SpecController == Init /\ [][NextController]_vars

\* the step's post-state is the record t
PostIs(t) ==
    /\ current_state' = t.current_state
    /\ previous_state' = t.previous_state
    /\ remaining_seconds' = t.remaining_seconds
    /\ current_session' = t.current_session
    /\ qt_timer_active' = t.qt_timer_active
    /\ overlay_visible' = t.overlay_visible
    /\ completions' = t.completions
    /\ last_state_changed' = t.last_state_changed
    /\ emitted' = t.emitted

\* the step changes no field and emits no event
CoreUnchanged ==
    /\ UNCHANGED << timer_fields, qt_timer_active, overlay_visible >>
    /\ emitted' = << >>

\* C17: a start_or_resume() step has the effect of start_work_session()
\* when the core is IDLE (it enters WORK with the work duration), the
\* effect of resume() when PAUSED (it returns to previous_state), and
\* changes nothing and emits nothing in WORK, SHORT_BREAK or LONG_BREAK;
\* the core command it chooses always has its precondition satisfied.
C17_StartOrResumeDispatch ==
    [][ (op' = "start_or_resume") =>
            /\ (current_state = IDLE) =>
                   /\ PostIs(start_work_session(Self))
                   /\ current_state' = WORK
                   /\ remaining_seconds' = config.work_duration_seconds
            /\ (current_state = PAUSED) =>
                   /\ PostIs(resume(Self))
                   /\ current_state' = previous_state
                   /\ remaining_seconds' = remaining_seconds
            /\ (current_state \in RunningStates) => CoreUnchanged
            /\ Precondition(start_or_resume_call(Self), current_state)
      ]_vars

\* start_or_resume() was called during a running break and ignored
C17_Witness ==
    /\ op = "start_or_resume"
    /\ current_state = SHORT_BREAK
    /\ qt_timer_active
    /\ remaining_seconds = 1
    /\ emitted = << >>

\* C18: a pause_or_resume() step has the effect of pause() when the core
\* is WORK, SHORT_BREAK or LONG_BREAK, the effect of resume() when PAUSED,
\* and changes nothing when IDLE; a pause_or_resume() that directly
\* follows a pausing pause_or_resume() returns to the paused state with
\* the same remaining_seconds; a controller reset() step has the effect
\* of the core reset().
C18_PauseOrResumeDispatch ==
    [][ /\ (op' = "pause_or_resume") =>
            /\ (current_state \in RunningStates) =>
                   /\ PostIs(pause(Self))
                   /\ current_state' = PAUSED
                   /\ previous_state' = current_state
                   /\ remaining_seconds' = remaining_seconds
            /\ (current_state = PAUSED) =>
                   /\ PostIs(resume(Self))
                   /\ remaining_seconds' = remaining_seconds
            /\ (current_state = PAUSED /\ op = "pause_or_resume") =>
                   /\ current_state' = previous_state
                   /\ current_state' \in RunningStates
            /\ (current_state = IDLE) => CoreUnchanged
            /\ Precondition(pause_or_resume_call(Self), current_state)
        /\ (op' = "controller.reset") =>
            /\ PostIs(reset(Self))
            /\ ConstructedState'
      ]_vars

\* a second pause_or_resume() resumed the long break it had paused
C18_Witness ==
    /\ op = "pause_or_resume"
    /\ current_state = LONG_BREAK
    /\ previous_state = LONG_BREAK
    /\ qt_timer_active
    /\ remaining_seconds = 2
    /\ emitted = << state_changed(LONG_BREAK), time_changed(2) >>

\* C19: in every state the start button is (True, "Start") in IDLE,
\* (True, "Resume") in PAUSED and disabled otherwise; the pause button is
\* (True, "Pause") in WORK, SHORT_BREAK and LONG_BREAK, (True, "Resume")
\* in PAUSED and disabled in IDLE; the enabled flags equal can_start()
\* and can_pause(); and a button is enabled exactly when its controller
\* call would change current_state.
C19_ButtonStatesConsistent ==
    LET start_button == get_start_button_state(Self)
        pause_button == get_pause_button_state(Self)
    IN  /\ (current_state = IDLE) => start_button = << TRUE, "Start" >>
        /\ (current_state = PAUSED) => start_button = << TRUE, "Resume" >>
        /\ (current_state \in RunningStates) => ~ start_button[1]
        /\ (current_state \in RunningStates) => pause_button = << TRUE, "Pause" >>
        /\ (current_state = PAUSED) => pause_button = << TRUE, "Resume" >>
        /\ (current_state = IDLE) => ~ pause_button[1]
        /\ start_button[1] = can_start(Self)
        /\ pause_button[1] = can_pause(Self)
        /\ start_button[1] <=> (start_or_resume(Self).current_state # current_state)
        /\ pause_button[1] <=> (pause_or_resume(Self).current_state # current_state)

\* a paused work session, where both buttons read "Resume"
C19_Witness ==
    /\ op = "pause_or_resume"
    /\ current_state = PAUSED
    /\ previous_state = WORK
    /\ get_start_button_state(Self) = << TRUE, "Resume" >>
    /\ get_pause_button_state(Self) = << TRUE, "Resume" >>

(***************************************************************************)
(* The configuration dialog.  Its Save button writes the spin box values   *)
(* into the configuration object the timer reads; the spin boxes hold      *)
(* minutes.  Values are drawn from the low end of each spin box range.     *)
(***************************************************************************)
work_duration_spin == {1}

short_break_spin == {1}

long_break_spin == {5}

sessions_spin == {2, 3}

\* the setters behind config.work_duration = ... and its siblings
save_and_accept(w, s, l, n) ==
    [ work_duration_seconds |-> w * 60,
      short_break_duration_seconds |-> s * 60,
      long_break_duration_seconds |-> l * 60,
      sessions_until_long_break |-> n ]

\* a Save that also reloads the running countdown from the new settings
SaveSettingsReloadsCountdown ==
    \E w \in work_duration_spin, s \in short_break_spin,
       l \in long_break_spin, n \in sessions_spin :
        /\ config' = save_and_accept(w, s, l, n)
        /\ remaining_seconds' = IF current_state = WORK
                                THEN config'.work_duration_seconds
                                ELSE remaining_seconds
        /\ emitted' = << >>
        /\ session_shown' = << >>
        /\ remaining_seen' = << >>
        /\ op' = "save_and_accept"
        /\ UNCHANGED << monitor_vars, env_vars >>
        /\ UNCHANGED << current_state, previous_state, current_session,
                        qt_timer_active, overlay_visible, completions,
                        last_state_changed >>

SaveSettings ==
    \E w \in work_duration_spin, s \in short_break_spin,
       l \in long_break_spin, n \in sessions_spin :
        /\ config' = save_and_accept(w, s, l, n)
        /\ emitted' = << >>
        /\ session_shown' = << >>
        /\ remaining_seen' = << >>
        /\ op' = "save_and_accept"
        /\ UNCHANGED << monitor_vars, env_vars >>
        /\ UNCHANGED << current_state, previous_state, remaining_seconds,
                        current_session, qt_timer_active, overlay_visible,
                        completions, last_state_changed >>

InitSettings == Init /\ config \in UniformConfigs

NextSettings ==
    \/ Next
    \/ SaveSettings

SpecSettings == InitSettings /\ [][NextSettings]_vars

\* C20: saving new settings changes no field of the timer and emits no
\* event, whatever the state; pause() and resume() keep remaining_seconds
\* afterwards; and every phase start loads the configuration as it is at
\* that step: start_work_session() the work duration, and a break start
\* (by start_break() or by a WORK exhaustion) the break kind given by the
\* current sessions_until_long_break with that break's current duration.
C20_ConfigReadAtPhaseStart ==
    [][ /\ (op' = "save_and_accept") => CoreUnchanged
        /\ (op' # "save_and_accept") => config' = config
        /\ (op' \in {"pause", "resume"}) => remaining_seconds' = remaining_seconds
        /\ (op' = "start_work_session" /\ current_state = IDLE) =>
               remaining_seconds' = config'.work_duration_seconds
        /\ (op' = "start_break" /\ current_state = WORK) =>
               BreakEntered(current_session)
        /\ Exhausts(WORK) => BreakEntered(current_session')
      ]_vars

\* settings were saved during a long break that was entered under
\* sessions_until_long_break = 1 with a 2-second duration
C20_Witness ==
    /\ op = "save_and_accept"
    /\ current_state = LONG_BREAK
    /\ current_session = 2
    /\ completions = 1
    /\ remaining_seconds = 2
    /\ config = save_and_accept(1, 1, 5, 2)

\* the method a callback name stands for, applied to the timer t
Apply(name, t) ==
    CASE name = "start_work_session" -> start_work_session(t)
      [] name = "start_break" -> start_break(t)
      [] name = "pause" -> pause(t)
      [] name = "resume" -> resume(t)
      [] name = "reset" -> reset(t)
      [] name = "_tick" -> _tick(t)
      [] name = "extend_break" -> extend_break(t)
      [] name = "skip_break" -> skip_break(t)
      [] name = "_on_user_activity" -> _on_user_activity(t)
      [] name = "_on_global_hotkey" -> _on_global_hotkey(t)

C27_CountdownActiveIffRunning ==
    qt_timer_active <=> current_state \in RunningStates

\* a paused short break was resumed and counts down again
C27_Witness ==
    /\ op = "resume"
    /\ current_state = SHORT_BREAK
    /\ qt_timer_active
    /\ overlay_visible
    /\ emitted = << state_changed(SHORT_BREAK), time_changed(remaining_seconds) >>

\* C28: previous_state is never PAUSED; while PAUSED it is WORK,
\* SHORT_BREAK or LONG_BREAK; and a resume() from PAUSED ends in WORK,
\* SHORT_BREAK or LONG_BREAK.
C28_PreviousStateValid ==
    [][ /\ previous_state' \in {IDLE, WORK, SHORT_BREAK, LONG_BREAK}
        /\ (current_state' = PAUSED) => previous_state' \in RunningStates
        /\ (op' = "resume" /\ current_state = PAUSED) =>
               current_state' \in RunningStates
      ]_vars

\* pause() was called on an already paused work session
C28_Witness ==
    /\ op = "pause"
    /\ current_state = PAUSED
    /\ previous_state = WORK
    /\ emitted = << >>

\* all configured durations are at least one second
DurationsPositive ==
    /\ config.work_duration_seconds >= 1
    /\ config.short_break_duration_seconds >= 1
    /\ config.long_break_duration_seconds >= 1

\* C29: when all configured durations are >= 1 second, between callbacks
\* IDLE implies remaining_seconds = 0 and WORK, SHORT_BREAK, LONG_BREAK
\* and PAUSED imply remaining_seconds >= 1.
C29_RemainingTiedToState ==
    DurationsPositive =>
        /\ (current_state = IDLE) => remaining_seconds = 0
        /\ (current_state # IDLE) => remaining_seconds >= 1

\* the short break after the second work session was exhausted
C29_Witness ==
    /\ DurationsPositive
    /\ op = "_tick"
    /\ current_state = IDLE
    /\ remaining_seconds = 0
    /\ current_session = 3
    /\ emitted = << time_changed(0), state_changed(IDLE),
                    session_completed(SHORT_BREAK) >>

(***************************************************************************)
(* get_time_display() called on a work countdown of up to                  *)
(* MaxDisplaySeconds seconds left (the settings dialog allows a work       *)
(* duration of up to 120 minutes).                                         *)
(***************************************************************************)
MaxDisplaySeconds == 6005

\* a 101-minute work duration, saved in the settings dialog
DisplayConfig == save_and_accept(101, 1, 5, 2)

\* the timer as constructed, or counting down a work session
InitDisplay ==
    /\ InitApp({FALSE}, {TRUE}, {FALSE})
    /\ config = DisplayConfig
    /\ remaining_seconds \in 0..MaxDisplaySeconds
    /\ remaining_seconds <= config.work_duration_seconds
    /\ current_state = (IF remaining_seconds = 0 THEN IDLE ELSE WORK)
    /\ last_state_changed = (IF remaining_seconds = 0 THEN NoState ELSE WORK)
    /\ qt_timer_active = (remaining_seconds # 0)
    /\ previous_state = IDLE
    /\ current_session = 1
    /\ overlay_visible = FALSE
    /\ emitted = << >>
    /\ completions = 0
    /\ op = "__init__"

\* a caller asks the timer for its display string
GetTimeDisplay ==
    /\ time_display' = get_time_display(Self)
    /\ emitted' = << >>
    /\ session_shown' = << >>
    /\ remaining_seen' = << >>
    /\ op' = "get_time_display"
    /\ UNCHANGED << config, current_state, previous_state, remaining_seconds,
                    current_session, qt_timer_active, overlay_visible,
                    completions, last_state_changed, monitor_vars,
                    auto_start_work_after_break, listeners_available,
                    activity_queue, hotkey_is_active >>

NextDisplay == GetTimeDisplay

SpecDisplay == InitDisplay /\ [][NextDisplay]_vars

\* the ten digit characters, the digit d at index d + 1
DigitChars == << "0", "1", "2", "3", "4", "5", "6", "7", "8", "9" >>

\* MM:SS written digit by digit, for 0 <= r < 6000
MMSS(r) ==
    DigitChars[(r \div 600) + 1] \o DigitChars[((r \div 60) % 10) + 1] \o ":"
        \o DigitChars[((r % 60) \div 10) + 1] \o DigitChars[((r % 60) % 10) + 1]

\* C24: for every remaining_seconds r with 0 <= r < 6000,
\* get_time_display() returns the two digits of r div 60, a colon and
\* the two digits of r mod 60; the call changes no field of the timer
\* and emits no event.
C24_TimeDisplayFormat ==
    [][ (op' = "get_time_display") =>
            /\ (0 <= remaining_seconds /\ remaining_seconds < 6000) =>
                   time_display' = MMSS(remaining_seconds)
            /\ UNCHANGED << timer_fields, overlay_visible, config >>
            /\ emitted' = << >>
      ]_vars

\* 65 seconds were rendered
C24_Witness ==
    /\ op = "get_time_display"
    /\ remaining_seconds = 65
    /\ time_display = "01:05"

\* C25: the tick that exhausts a WORK countdown emits, in this order,
\* time_changed(remaining <= 0), session_completed(WORK),
\* state_changed(break) and time_changed(break duration); the listener of
\* session_completed reads the incremented current_session; the break is
\* the one given by the incremented current_session; and the step ends in
\* that break, so no command runs between exhaustion and break start.
C25_WorkExhaustionOrder ==
    [][ Exhausts(WORK) =>
            LET incremented == current_session + 1
                kind == IF (incremented - 1) > 0
                           /\ (incremented - 1) % config.sessions_until_long_break = 0
                        THEN LONG_BREAK
                        ELSE SHORT_BREAK
            IN  /\ emitted' = << time_changed(remaining_seconds - 1),
                                 session_completed(WORK),
                                 state_changed(kind),
                                 time_changed(BreakDuration(kind)) >>
                /\ session_shown' = << incremented >>
                /\ current_session' = incremented
                /\ current_state' = kind
      ]_vars

\* the first work session was exhausted and the window showed session 2
C25_Witness ==
    /\ op = "_tick"
    /\ session_shown = << 2 >>
    /\ current_state = LONG_BREAK
    /\ config.sessions_until_long_break = 1
    /\ Len(emitted) = 4

(***************************************************************************)
(* The application with its InputMonitor and its global hotkey.  The main  *)
(* thread runs the callbacks of the timer; each listener callback runs on  *)
(* its listener's thread, one access to the monitor's fields per step.     *)
(* The commands explored are those that enter or leave IDLE; pause() and   *)
(* resume() do neither and are left to the other specifications.           *)
(***************************************************************************)
\* 1-second phases, a long break after every second session
MonitorConfigs ==
    { c \in UniformConfigs :
        /\ c.work_duration_seconds = 1
        /\ c.sessions_until_long_break = 2 }

InitMonitor ==
    /\ InitApp(BOOLEAN, BOOLEAN, BOOLEAN)
    /\ config \in MonitorConfigs
    /\ current_state = IDLE
    /\ previous_state = IDLE
    /\ remaining_seconds = 0
    /\ current_session = 1
    /\ qt_timer_active = FALSE
    /\ overlay_visible = FALSE
    /\ emitted = << >>
    /\ completions = 0
    /\ last_state_changed = NoState
    /\ op = "__init__"

\* the callbacks in progress of the current (stale = FALSE) or of an
\* earlier (stale = TRUE) monitoring period
Bag(stale) == IF stale THEN stale_callbacks ELSE callbacks

SetBag(stale, bag) ==
    IF stale
    THEN stale_callbacks' = bag /\ UNCHANGED callbacks
    ELSE callbacks' = bag /\ UNCHANGED stale_callbacks

\* a callback at from goes on to to
Move(stale, from, to) ==
    SetBag(stale, [Bag(stale) EXCEPT ![from] = @ - 1, ![to] = @ + 1])

\* a callback at from returns
Return(stale, from) ==
    SetBag(stale, [Bag(stale) EXCEPT ![from] = @ - 1])

\* a step of a listener thread: no callback of the main thread runs
ListenerStep(name) ==
    /\ op' = name
    /\ emitted' = << >>
    /\ session_shown' = << >>
    /\ remaining_seen' = << >>
    /\ UNCHANGED << config, current_state, previous_state, remaining_seconds,
                    current_session, qt_timer_active, overlay_visible,
                    completions, last_state_changed,
                    auto_start_work_after_break, listeners_available,
                    hotkey_is_active, time_display >>

\* _on_mouse_activity / _on_keyboard_activity: a started listener delivers
\* an input event; the callback reads is_monitoring
OnActivity ==
    /\ listening
    /\ CallbackCount(callbacks) + CallbackCount(stale_callbacks) < MaxCallbacks
    /\ IF is_monitoring
       THEN callbacks' = [callbacks EXCEPT !["_record_activity"] = @ + 1]
       ELSE UNCHANGED callbacks
    /\ UNCHANGED << is_monitoring, is_user_considered_idle, listening,
                    stale_callbacks, activity_queue, period_emissions >>
    /\ ListenerStep("_on_mouse_activity")

\* _record_activity: reads is_user_considered_idle and emits
\* activity_detected, which is queued for the main thread
RecordActivity ==
    \E stale \in BOOLEAN :
        /\ Bag(stale)["_record_activity"] > 0
        /\ IF is_user_considered_idle
           THEN /\ activity_queue < MaxQueue
                /\ activity_queue' = activity_queue + 1
                /\ period_emissions' = period_emissions + 1
                /\ Move(stale, "_record_activity", "stop_monitoring")
           ELSE /\ UNCHANGED << activity_queue, period_emissions >>
                /\ Return(stale, "_record_activity")
        /\ UNCHANGED << is_monitoring, is_user_considered_idle, listening >>
        /\ ListenerStep("_record_activity")

\* stop_monitoring on the listener thread: reads is_monitoring
ListenerStopMonitoring ==
    \E stale \in BOOLEAN :
        /\ Bag(stale)["stop_monitoring"] > 0
        /\ IF is_monitoring
           THEN Move(stale, "stop_monitoring", "stop_flags")
           ELSE Return(stale, "stop_monitoring")
        /\ UNCHANGED << is_monitoring, is_user_considered_idle, listening,
                        activity_queue, period_emissions >>
        /\ ListenerStep("listener.stop_monitoring")

\* stop_monitoring on the listener thread: clears the two flags
ListenerStopFlags ==
    \E stale \in BOOLEAN :
        /\ Bag(stale)["stop_flags"] > 0
        /\ is_monitoring' = FALSE
        /\ is_user_considered_idle' = FALSE
        /\ Move(stale, "stop_flags", "stop_listeners")
        /\ UNCHANGED << listening, activity_queue, period_emissions >>
        /\ ListenerStep("listener.stop_flags")

\* stop_monitoring on the listener thread: stops the monitor's listeners
ListenerStopListeners ==
    \E stale \in BOOLEAN :
        /\ Bag(stale)["stop_listeners"] > 0
        /\ listening' = FALSE
        /\ Return(stale, "stop_listeners")
        /\ UNCHANGED << is_monitoring, is_user_considered_idle, activity_queue,
                        period_emissions >>
        /\ ListenerStep("listener.stop_listeners")

\* the main thread takes a queued activity_detected
OnUserActivity ==
    /\ activity_queue > 0
    /\ activity_queue' = activity_queue - 1
    /\ Callback("_on_user_activity", _on_user_activity(Self))
    /\ UNCHANGED << auto_start_work_after_break, listeners_available,
                    hotkey_is_active, time_display >>

\* PyomodoroApp._on_global_hotkey, delivered only by an active manager
OnGlobalHotkey ==
    /\ hotkey_is_active
    /\ Commit("_on_global_hotkey", _on_global_hotkey(Self))

\* MainWindow.toggle_auto_restart
ToggleAutoRestart ==
    /\ auto_start_work_after_break' = ~ auto_start_work_after_break
    /\ op' = "toggle_auto_restart"
    /\ emitted' = << >>
    /\ session_shown' = << >>
    /\ remaining_seen' = << >>
    /\ UNCHANGED << config, current_state, previous_state, remaining_seconds,
                    current_session, qt_timer_active, overlay_visible,
                    completions, last_state_changed, monitor_vars,
                    listeners_available, activity_queue, hotkey_is_active,
                    time_display >>

NextMonitor ==
    \/ StartWorkSession
    \/ Reset
    \/ Tick
    \/ SkipBreak
    \/ OnActivity
    \/ RecordActivity
    \/ ListenerStopMonitoring
    \/ ListenerStopFlags
    \/ ListenerStopListeners
    \/ OnUserActivity
    \/ OnGlobalHotkey
    \/ ToggleAutoRestart

SpecMonitor == InitMonitor /\ [][NextMonitor]_vars

\* the callbacks the main thread runs
MainThreadCallbacks ==
    {"start_work_session", "reset", "_tick", "skip_break",
     "_on_user_activity", "_on_global_hotkey"}

\* the timer's own part of the record t
TimerPart(t) ==
    << t.current_state, t.previous_state, t.remaining_seconds,
       t.current_session, t.qt_timer_active, t.emitted >>

\* C21 (first part): a tick that exhausts a break while
\* auto_start_work_after_break is enabled and the listeners can start
\* leaves the monitor active; (second part) while the timer stays IDLE
\* after a break and no activity_detected is waiting for the main thread,
\* monitoring stays active, also when a callback of an earlier monitoring
\* period is still on its way through stop_monitoring.
C21_MonitoringStaysActive ==
    [][ /\ ( /\ op' = "_tick"
             /\ current_state \in BreakStates
             /\ current_state' = IDLE
             /\ auto_start_work_after_break
             /\ listeners_available ) => (is_monitoring' /\ listening')
        /\ ( /\ is_monitoring
             /\ current_state = IDLE
             /\ completions >= 1
             /\ activity_queue = 0
             /\ current_state' = IDLE ) => is_monitoring'
      ]_vars

\* C22: input monitoring starts only in a tick that exhausts a
\* SHORT_BREAK or LONG_BREAK while auto_start_work_after_break is
\* enabled: not at process start, not in a reset() and not while the
\* setting is disabled.
C22_MonitoringOnlyAfterBreak ==
    [][ (~ is_monitoring /\ is_monitoring') =>
            /\ op' = "_tick"
            /\ current_state \in BreakStates
            /\ auto_start_work_after_break
      ]_vars

\* C23: when the listeners cannot be started the monitor is never left
\* with is_monitoring set, and every callback of the main thread leaves
\* the timer's fields and events exactly as it would if the listeners
\* did start; without an active hotkey manager no hotkey callback runs
\* and the timer starts in its constructed state.
C23_CollaboratorFailuresLocal ==
    [][ /\ (~ listeners_available) => ~ is_monitoring'
        /\ (op' \in MainThreadCallbacks) =>
               LET other == [Self EXCEPT !.listeners_available = ~ @]
               IN  << current_state', previous_state', remaining_seconds',
                      current_session', qt_timer_active', emitted' >>
                       = TimerPart(Apply(op', other))
        /\ (~ hotkey_is_active) => op' # "_on_global_hotkey"
        /\ (op = "__init__") => ConstructedState
      ]_vars

\* a break ended with auto-start enabled, the listeners failed to start
\* and the timer is IDLE as after any break
C23_Witness ==
    /\ ~ listeners_available
    /\ ~ hotkey_is_active
    /\ auto_start_work_after_break
    /\ op = "_tick"
    /\ current_state = IDLE
    /\ remaining_seconds = 0
    /\ ~ is_monitoring
    /\ is_user_considered_idle
    /\ emitted = << time_changed(0), state_changed(IDLE),
                    session_completed(SHORT_BREAK) >>

\* C30: between steps, is_monitoring implies current_state = IDLE; every
\* callback that leaves IDLE has stopped monitoring when it ends.
C30_MonitoringOnlyWhileIdle ==
    is_monitoring => current_state = IDLE

\* the hotkey started a work session while a listener callback of the
\* monitoring period just ended was still in progress
C30_Witness ==
    /\ op = "_on_global_hotkey"
    /\ current_state = WORK
    /\ ~ is_monitoring
    /\ ~ listening
    /\ CallbackCount(callbacks) > 0
    /\ emitted = << state_changed(WORK), time_changed(1) >>

\* C33: skip_break() during a break or a paused break is a full reset: it
\* leaves the constructor's state (IDLE, remaining_seconds 0,
\* current_session 1) with the overlay hidden, emits state_changed(IDLE)
\* and no session_completed, and restarts the long-break cadence: the next
\* long break is counted from the work sessions completed after the skip.
C33_SkipBreakIsFullReset ==
    [][ /\ op' = "skip_break" =>
               /\ ConstructedState'
               /\ ~ overlay_visible'
               /\ emitted' = << state_changed(IDLE) >>
               /\ completions' = 0
        /\ current_session' - 1 = completions'
        /\ Exhausts(WORK) =>
               ((current_state' = LONG_BREAK) <=>
                    ((current_session' - 1) % config.sessions_until_long_break = 0))
      ]_vars

\* the Skip button has ended a break
C33_Witness ==
    /\ op = "skip_break"
    /\ current_state = IDLE
    /\ remaining_seconds = 0
    /\ current_session = 1
    /\ completions = 0
    /\ ~ overlay_visible
    /\ ~ qt_timer_active
    /\ emitted = << state_changed(IDLE) >>

\* C34: extend_break() adds exactly 300 seconds to remaining_seconds and
\* emits time_changed with the new value; current_state, previous_state,
\* current_session and the countdown's activity stay as they were.  On a
\* paused break the state stays PAUSED, and a later resume() continues
\* from the remaining_seconds it finds, the extension included.
C34_ExtendBreakAddsFiveMinutes ==
    [][ /\ op' = "extend_break" =>
               /\ remaining_seconds' = remaining_seconds + 300
               /\ emitted' = << time_changed(remaining_seconds + 300) >>
               /\ UNCHANGED << current_state, previous_state, current_session,
                               qt_timer_active, overlay_visible >>
        /\ (op' = "resume" /\ current_state = PAUSED) =>
               /\ current_state' = previous_state
               /\ remaining_seconds' = remaining_seconds
               /\ qt_timer_active'
      ]_vars

\* a paused short break has been extended
C34_Witness ==
    /\ op = "extend_break"
    /\ current_state = PAUSED
    /\ previous_state = SHORT_BREAK
    /\ remaining_seconds = 301
    /\ ~ qt_timer_active
    /\ overlay_visible
    /\ emitted = << time_changed(301) >>

(***************************************************************************)
(* The timer with all its commands and both input collaborators at work:   *)
(* auto-start is enabled, the listeners start and the global hotkey is     *)
(* registered, so activity events and hotkey triggers reach the timer in   *)
(* every state, PAUSED included.                                           *)
(***************************************************************************)
InitInput ==
    /\ InitApp({TRUE}, {TRUE}, {TRUE})
    /\ config \in MonitorConfigs
    /\ current_state = IDLE
    /\ previous_state = IDLE
    /\ remaining_seconds = 0
    /\ current_session = 1
    /\ qt_timer_active = FALSE
    /\ overlay_visible = FALSE
    /\ emitted = << >>
    /\ completions = 0
    /\ last_state_changed = NoState
    /\ op = "__init__"

NextInput ==
    \/ Next
    \/ OnActivity
    \/ RecordActivity
    \/ ListenerStopMonitoring
    \/ ListenerStopFlags
    \/ ListenerStopListeners
    \/ OnUserActivity
    \/ OnGlobalHotkey

SpecInput == InitInput /\ [][NextInput]_vars

\* C35: a trigger of the global hotkey starts a work session iff the timer
\* is IDLE (WORK, the work duration loaded, the countdown running); in
\* WORK, SHORT_BREAK, LONG_BREAK and PAUSED it changes neither the state
\* nor remaining_seconds nor any other field and emits no event.
C35_HotkeyStartsOnlyFromIdle ==
    [][ op' = "_on_global_hotkey" =>
            IF current_state = IDLE
            THEN /\ current_state' = WORK
                 /\ remaining_seconds' = config.work_duration_seconds
                 /\ qt_timer_active'
                 /\ emitted' = << state_changed(WORK),
                                  time_changed(config.work_duration_seconds) >>
            ELSE CoreUnchanged
      ]_vars

\* the hotkey was pressed during a paused break and nothing happened
C35_Witness ==
    /\ op = "_on_global_hotkey"
    /\ current_state = PAUSED
    /\ previous_state = SHORT_BREAK
    /\ remaining_seconds = 1
    /\ ~ qt_timer_active
    /\ overlay_visible
    /\ emitted = << >>

\* C32: an activity_detected event delivered while the timer is not IDLE
\* changes no field and emits nothing: a WORK, break or PAUSED phase is
\* never restarted, resumed or shortened by user activity, however late or
\* however often events are delivered.  An event delivered in IDLE starts
\* exactly one work session.
C32_ActivityNeverDisturbsPhase ==
    [][ op' = "_on_user_activity" =>
            IF current_state = IDLE
            THEN /\ current_state' = WORK
                 /\ remaining_seconds' = config.work_duration_seconds
                 /\ current_session' = current_session
                 /\ emitted' = << state_changed(WORK),
                                  time_changed(config.work_duration_seconds) >>
            ELSE CoreUnchanged
      ]_vars

\* an activity event emitted while IDLE was delivered after the user had
\* started and paused a work session
C32_Witness ==
    /\ op = "_on_user_activity"
    /\ current_state = PAUSED
    /\ previous_state = WORK
    /\ remaining_seconds = 1
    /\ ~ qt_timer_active
    /\ emitted = << >>

default_sessions_until_long_break == 4

\* main() that stores the argument without testing it
test_config_sessions_unfiltered(arg) == arg

\* main(): test_config['sessions_until_long_break'] as InMemoryConfig reads it
test_config_sessions(arg) ==
    IF arg # 0 THEN arg ELSE default_sessions_until_long_break

\* the third command-line argument
SessionsArgs == (- MaxSessionsUntilLong) .. MaxSessionsUntilLong

SuppliedConfigs ==
    [ work_duration_seconds        : 0..MaxDuration,
      short_break_duration_seconds : {1},
      long_break_duration_seconds  : {2},
      sessions_until_long_break    :
          sessions_spin \cup { test_config_sessions(arg) : arg \in SessionsArgs } ]

InitSupplied ==
    /\ InitApp({FALSE}, {TRUE}, {FALSE})
    /\ config \in SuppliedConfigs
    /\ current_state = IDLE
    /\ previous_state = IDLE
    /\ remaining_seconds = 0
    /\ current_session = 1
    /\ qt_timer_active = FALSE
    /\ overlay_visible = FALSE
    /\ emitted = << >>
    /\ completions = 0
    /\ last_state_changed = NoState
    /\ op = "__init__"

SpecSupplied == InitSupplied /\ [][Next]_vars

\* C38: for every sessions_until_long_break the configuration can supply,
\* a WORK exhaustion (and a start_break() in WORK) computes the break kind
\* without an arithmetic error: it ends in SHORT_BREAK or LONG_BREAK with
\* that break's duration loaded and the countdown running.  With the
\* value 1 every completed work session is followed by a long break.
C38_BreakKindNeverFails ==
    [][ (Exhausts(WORK) \/ (op' = "start_break" /\ current_state = WORK)) =>
            /\ current_state' \in BreakStates
            /\ remaining_seconds' = BreakDuration(current_state')
            /\ qt_timer_active'
            /\ (Exhausts(WORK) /\ config.sessions_until_long_break = 1) =>
                   current_state' = LONG_BREAK
      ]_vars

\* with the value 1 the third work session in a row ended in a long break
C38_Witness ==
    /\ op = "_tick"
    /\ config.sessions_until_long_break = 1
    /\ completions = 3
    /\ current_state = LONG_BREAK
    /\ remaining_seconds = 2
    /\ emitted = << time_changed(0), session_completed(WORK),
                    state_changed(LONG_BREAK), time_changed(2) >>

(***************************************************************************)
(* Progress.  While qt_timer is active Qt delivers its timeout every       *)
(* second, so Tick is weakly fair.  No pause, reset, skip or extension is  *)
(* issued, and a work session is started only below the session bound, so  *)
(* that the bound never holds back an exhaustion.                          *)
(***************************************************************************)
StartWorkBelowBound ==
    /\ current_session < MaxSession
    /\ StartWorkSession

NextProgress ==
    \/ StartWorkBelowBound
    \/ Tick

SpecProgress == Init /\ [][NextProgress]_vars /\ WF_vars(Tick)

\* C36: while ticks keep firing and no pause, reset or extension is
\* issued, every WORK phase is eventually exhausted and followed by a
\* break, and every break is eventually exhausted and followed by IDLE.
C36_PhasesEnd ==
    /\ (current_state = WORK) ~>
           (op = "_tick" /\ current_state \in BreakStates)
    /\ (current_state \in BreakStates) ~>
           (op = "_tick" /\ current_state = IDLE)

\* a 2-second work session and a 2-second short break have run to the end
C36_Witness ==
    /\ op = "_tick"
    /\ current_state = IDLE
    /\ current_session = 2
    /\ config.work_duration_seconds = 2
    /\ config.short_break_duration_seconds = 2
    /\ emitted = << time_changed(0), state_changed(IDLE),
                    session_completed(SHORT_BREAK) >>

\* C31: between one start_monitoring() and the stop_monitoring() that
\* follows it, activity_detected is emitted at most once, also when the
\* mouse and the keyboard listener thread report activity concurrently.
C31_SingleTriggerPerPeriod ==
    is_monitoring => period_emissions <= 1

====
